---- MODULE Spec2Model ----
(***************************************************************************)
(* Model of app.py: one invocation of lambda_handler, through the content  *)
(* pipeline (staged CrewAI run or direct Bedrock call), the S3 write and   *)
(* the response.  Texts are sequences of characters so that str.strip()    *)
(* and truthiness are computed rather than assumed.                        *)
(***************************************************************************)
EXTENDS Integers, Sequences, FiniteSets, TLC

VARIABLES prims, pc, event, topic, keywords, directCalls, directTopic,
          directOutcome, directGen, directResult, inferenceCalls, stageIdx,
          started, hasOut, ctxGiven, editOut, aggText, genResult, writes,
          putFailed, raisedAt, response

vars == <<prims, pc, event, topic, keywords, directCalls, directTopic,
          directOutcome, directGen, directResult, inferenceCalls, stageIdx,
          started, hasOut, ctxGiven, editOut, aggText, genResult, writes,
          putFailed, raisedAt, response>>

----------------------------------------------------------------------------
(* Bounds *)

MaxLen == 3

----------------------------------------------------------------------------
(* Values *)

Chars == {"a", " "}

RECURSIVE SeqsUpTo(_)
SeqsUpTo(n) ==
    IF n = 0 THEN {<<>>}
    ELSE LET S == SeqsUpTo(n - 1)
         IN  S \cup {Append(s, c) : s \in {t \in S : Len(t) = n - 1}, c \in Chars}

Texts == SeqsUpTo(MaxLen)

Absent == "ABSENT"

Topics == {"cloud", "ai"}

Primitives == {"Agent", "Task", "Crew", "Process", "LLM"}

\* The request events: event['body'] may be missing, may fail to decode, may
\* decode to something that is not an object, or to an object with or
\* without the fields read by the handler.
Events ==
    [hasBody : BOOLEAN,
     json : {"malformed", "nonobject", "object"},
     blog_topic : Topics \cup {Absent},
     seo_keywords : {Absent, "strlist", "notlist"}]

NoEvent == [hasBody |-> FALSE, json |-> "malformed", blog_topic |-> Absent,
            seo_keywords |-> Absent]

\* Python: s.strip() for the characters of the model.
RECURSIVE lstrip(_)
lstrip(t) == IF t # <<>> /\ Head(t) = " " THEN lstrip(Tail(t)) ELSE t

RECURSIVE rstrip(_)
rstrip(t) ==
    IF t # <<>> /\ t[Len(t)] = " " THEN rstrip(SubSeq(t, 1, Len(t) - 1)) ELSE t

strip(t) == rstrip(lstrip(t))

\* json.dumps of a str: the text between double quotes.
json_dumps(s) == "\"" \o s \o "\""

NoResponse == [kind |-> "none", statusCode |-> 0, body |-> ""]

RaisedResponse == [kind |-> "raised", statusCode |-> 0, body |-> ""]

SuccessResponse ==
    [kind |-> "returned", statusCode |-> 200,
     body |-> json_dumps("Blog generation is completed")]

----------------------------------------------------------------------------
(* lambda_handler: input parsing *)

\* Variant: the topic is read with .get(), so a missing key does not raise.
ParseSucceeds_TopicOptional(ev) ==
    /\ ev.hasBody
    /\ ev.json = "object"

\* event = json.loads(event['body']); blogtopic = event['blog_topic']
ParseSucceeds(ev) ==
    /\ ev.hasBody
    /\ ev.json = "object"
    /\ ev.blog_topic # Absent

\* event.get('seo_keywords')
GetKeywords(ev) == ev.seo_keywords

----------------------------------------------------------------------------
(* blog_generate_using_crewai_content_marketing *)

\* Variant: the test is inverted (x is not None).
FrameworkUnavailable_Inverted(p) == \E x \in Primitives : p[x]

\* any(x is None for x in [Agent, Task, Crew, Process, LLM])
FrameworkUnavailable(p) == \E x \in Primitives : ~p[x]

\* Variant: the fallback result is trimmed like the staged result.
FallbackResult_Stripped(r) == strip(r)

\* return blog_generate_using_bedrock(blogtopic)
FallbackResult(r) == r

\* ", ".join(seo_keywords) if seo_keywords else ""
JoinRaises(kw) == kw = "notlist"

\* Crew(tasks=[research_task, outline_task, write_task, edit_task], ...)
tasks == <<"research", "outline", "write", "edit">>

Stages == {tasks[i] : i \in 1..Len(tasks)}

\* Variant: the outline task is also given the write task as context.
TaskContext_ForwardLeak(s) ==
    CASE s = "research" -> {}
      [] s = "outline" -> {"research", "write"}
      [] s = "write" -> {"research", "outline"}
      [] s = "edit" -> {"research", "outline", "write"}

\* Task(..., context=[...])
TaskContext(s) ==
    CASE s = "research" -> {}
      [] s = "outline" -> {"research"}
      [] s = "write" -> {"research", "outline"}
      [] s = "edit" -> {"research", "outline", "write"}

\* What getattr(getattr(edit_task, "output", None), "raw", None) can be.
EditOutputs ==
    {[kind |-> k, raw |-> <<>>] :
        k \in {"no_output", "raw_none", "non_string", "raises"}}
    \cup {[kind |-> "str", raw |-> t] : t \in Texts}

NoEditOut == [kind |-> "no_output", raw |-> <<>>]

\* Variant: the editor's text is returned without the non-blank test.
ExtractFinal_NoBlankTest(e, agg) ==
    IF e.kind = "str" THEN strip(e.raw) ELSE strip(agg)

\* Lines 176-185: the editor's text when it is a non-blank str, else
\* str(result).strip().
ExtractFinal(e, agg) ==
    IF e.kind = "str" /\ strip(e.raw) # <<>>
    THEN strip(e.raw)
    ELSE strip(agg)

----------------------------------------------------------------------------
(* blog_generate_using_bedrock *)

DirectFailures ==
    {"client_error", "invoke_error", "read_error", "json_error",
     "missing_generation"}

DirectOutcomes == DirectFailures \cup {"ok"}

\* Variant: the client is created before the try block, as in
\* save_blog_details_s3.
DirectTryCovers_ClientOutside == DirectFailures \ {"client_error"}

\* The failure points inside the try block of lines 28-43.
DirectTryCovers == DirectFailures

\* return blog_details / return ""
DirectReturn(outcome, gen) == IF outcome = "ok" THEN gen ELSE <<>>

----------------------------------------------------------------------------
(* save_blog_details_s3 *)

S3Outcomes == {"client_error", "put_error", "ok"}

\* Variant: put_object is called without a try block.
S3TryCovers_Unguarded == {}

\* The failure points inside the try block of lines 190-194.
S3TryCovers == {"put_error"}

\* Variant: the save is not conditional on the generated text.
Truthy_Always(t) == TRUE

\* if generate_blog:
Truthy(t) == t # <<>>

----------------------------------------------------------------------------
(* State machine *)

Init ==
    /\ \E loaded \in BOOLEAN : prims = [x \in Primitives |-> loaded]
    /\ pc = "start"
    /\ event = NoEvent
    /\ topic = Absent
    /\ keywords = Absent
    /\ directCalls = 0
    /\ directTopic = Absent
    /\ directOutcome = "none"
    /\ directGen = <<>>
    /\ directResult = <<>>
    /\ inferenceCalls = 0
    /\ stageIdx = 0
    /\ started = <<>>
    /\ hasOut = {}
    /\ ctxGiven = [s \in Stages |-> {}]
    /\ editOut = NoEditOut
    /\ aggText = <<>>
    /\ genResult = <<>>
    /\ writes = <<>>
    /\ putFailed = FALSE
    /\ raisedAt = "none"
    /\ response = NoResponse

\* lambda_handler, lines 200-207.
ParseEvent ==
    /\ pc = "start"
    /\ \E ev \in Events :
        /\ event' = ev
        /\ IF ParseSucceeds(ev)
           THEN /\ topic' = ev.blog_topic
                /\ keywords' = GetKeywords(ev)
                /\ pc' = "pipeline"
                /\ UNCHANGED <<raisedAt, response>>
           ELSE /\ pc' = "raised"
                /\ raisedAt' = "parse"
                /\ response' = RaisedResponse
                /\ UNCHANGED <<topic, keywords>>
    /\ UNCHANGED <<prims, directCalls, directTopic, directOutcome, directGen,
                   directResult, inferenceCalls, stageIdx, started, hasOut,
                   ctxGiven, editOut, aggText, genResult, writes, putFailed>>

\* Lines 59-61: the availability gate.
AvailabilityCheck ==
    /\ pc = "pipeline"
    /\ IF FrameworkUnavailable(prims)
       THEN /\ pc' = "direct"
            /\ directCalls' = directCalls + 1
            /\ directTopic' = topic
       ELSE /\ pc' = "build"
            /\ UNCHANGED <<directCalls, directTopic>>
    /\ UNCHANGED <<prims, event, topic, keywords, directOutcome, directGen,
                   directResult, inferenceCalls, stageIdx, started, hasOut,
                   ctxGiven, editOut, aggText, genResult, writes, putFailed,
                   raisedAt, response>>

\* Lines 16-43, then the return of line 61.
blog_generate_using_bedrock ==
    /\ pc = "direct"
    /\ \E outcome \in DirectOutcomes, gen \in Texts :
        /\ outcome # "ok" => gen = <<>>
        /\ directOutcome' = outcome
        /\ directGen' = gen
        /\ inferenceCalls' =
              IF outcome = "client_error" THEN inferenceCalls
              ELSE inferenceCalls + 1
        /\ IF outcome \in DirectFailures /\ outcome \notin DirectTryCovers
           THEN /\ pc' = "raised"
                /\ raisedAt' = "direct"
                /\ response' = RaisedResponse
                /\ UNCHANGED <<directResult, genResult>>
           ELSE /\ directResult' = DirectReturn(outcome, gen)
                /\ genResult' = FallbackResult(DirectReturn(outcome, gen))
                /\ pc' = "generated"
                /\ UNCHANGED <<raisedAt, response>>
    /\ UNCHANGED <<prims, event, topic, keywords, directCalls, directTopic,
                   stageIdx, started, hasOut, ctxGiven, editOut, aggText,
                   writes, putFailed>>

\* Lines 63-172: the LLM, the agents, the tasks and the crew are built.
BuildCrew ==
    /\ pc = "build"
    /\ IF JoinRaises(keywords)
       THEN /\ pc' = "raised"
            /\ raisedAt' = "build"
            /\ response' = RaisedResponse
            /\ UNCHANGED stageIdx
       ELSE /\ pc' = "kickoff"
            /\ stageIdx' = 1
            /\ UNCHANGED <<raisedAt, response>>
    /\ UNCHANGED <<prims, event, topic, keywords, directCalls, directTopic,
                   directOutcome, directGen, directResult, inferenceCalls,
                   started, hasOut, ctxGiven, editOut, aggText, genResult,
                   writes, putFailed>>

\* Line 174: crew.kickoff() under Process.sequential runs the next task of
\* the list with the outputs of its context tasks; a stage that raises is
\* not caught anywhere in app.py.
RunStage ==
    /\ pc = "kickoff"
    /\ stageIdx \in 1..Len(tasks)
    /\ LET s == tasks[stageIdx] IN
        /\ started' = Append(started, s)
        /\ ctxGiven' = [ctxGiven EXCEPT ![s] = TaskContext(s)]
        /\ inferenceCalls' = inferenceCalls + 1
        /\ \E ok \in BOOLEAN :
            IF ok
            THEN /\ hasOut' = hasOut \cup {s}
                 /\ stageIdx' = stageIdx + 1
                 /\ pc' = IF stageIdx = Len(tasks) THEN "extract" ELSE "kickoff"
                 /\ UNCHANGED <<raisedAt, response>>
            ELSE /\ pc' = "raised"
                 /\ raisedAt' = "kickoff"
                 /\ response' = RaisedResponse
                 /\ UNCHANGED <<hasOut, stageIdx>>
    /\ UNCHANGED <<prims, event, topic, keywords, directCalls, directTopic,
                   directOutcome, directGen, directResult, editOut, aggText,
                   genResult, writes, putFailed>>

\* Lines 176-185.
ExtractResult ==
    /\ pc = "extract"
    /\ \E e \in EditOutputs, agg \in Texts :
        /\ editOut' = e
        /\ aggText' = agg
        /\ genResult' = ExtractFinal(e, agg)
    /\ pc' = "generated"
    /\ UNCHANGED <<prims, event, topic, keywords, directCalls, directTopic,
                   directOutcome, directGen, directResult, inferenceCalls,
                   stageIdx, started, hasOut, ctxGiven, writes, putFailed,
                   raisedAt, response>>

\* Lines 219-225.
CheckGenerated ==
    /\ pc = "generated"
    /\ pc' = IF Truthy(genResult) THEN "save" ELSE "respond"
    /\ UNCHANGED <<prims, event, topic, keywords, directCalls, directTopic,
                   directOutcome, directGen, directResult, inferenceCalls,
                   stageIdx, started, hasOut, ctxGiven, editOut, aggText,
                   genResult, writes, putFailed, raisedAt, response>>

\* Lines 187-194.
save_blog_details_s3 ==
    /\ pc = "save"
    /\ \E outcome \in S3Outcomes :
        /\ writes' = IF outcome = "client_error" THEN writes
                     ELSE Append(writes, genResult)
        /\ putFailed' = (outcome = "put_error")
        /\ IF outcome # "ok" /\ outcome \notin S3TryCovers
           THEN /\ pc' = "raised"
                /\ raisedAt' = "save"
                /\ response' = RaisedResponse
           ELSE /\ pc' = "respond"
                /\ UNCHANGED <<raisedAt, response>>
    /\ UNCHANGED <<prims, event, topic, keywords, directCalls, directTopic,
                   directOutcome, directGen, directResult, inferenceCalls,
                   stageIdx, started, hasOut, ctxGiven, editOut, aggText,
                   genResult>>

\* Lines 227-230.
Respond ==
    /\ pc = "respond"
    /\ response' = SuccessResponse
    /\ pc' = "done"
    /\ UNCHANGED <<prims, event, topic, keywords, directCalls, directTopic,
                   directOutcome, directGen, directResult, inferenceCalls,
                   stageIdx, started, hasOut, ctxGiven, editOut, aggText,
                   genResult, writes, putFailed, raisedAt>>

Next ==
    \/ ParseEvent
    \/ AvailabilityCheck
    \/ blog_generate_using_bedrock
    \/ BuildCrew
    \/ RunStage
    \/ ExtractResult
    \/ CheckGenerated
    \/ save_blog_details_s3
    \/ Respond

Spec == Init /\ [][Next]_vars

TypeOK ==
    /\ pc \in {"start", "pipeline", "direct", "build", "kickoff", "extract",
               "generated", "save", "respond", "done", "raised"}
    /\ event \in Events
    /\ genResult \in Texts
    /\ directCalls \in 0..1
    /\ stageIdx \in 0..(Len(tasks) + 1)

----------------------------------------------------------------------------
(* Properties *)

Available == \A x \in Primitives : prims[x]

BodyParsed == pc # "start" /\ event.hasBody /\ event.json = "object"

\* The pipeline call of lines 210-217 has returned to the handler.
GenReturned ==
    \/ pc \in {"generated", "save", "respond", "done"}
    \/ raisedAt = "save"

Envelope ==
    [kind |-> "returned", statusCode |-> 200,
     body |-> "\"Blog generation is completed\""]

NonBlank(t) == \E i \in 1..Len(t) : t[i] # " "

\* r is t without its leading and trailing spaces.
IsTrimOf(r, t) ==
    \E i \in 1..(Len(t) + 1), j \in 0..Len(t) :
        /\ r = IF i > j THEN <<>> ELSE SubSeq(t, i, j)
        /\ \A k \in 1..Len(t) : (k < i \/ k > j) => t[k] = " "
        /\ r # <<>> => (r[1] # " " /\ r[Len(r)] # " ")

StageOrder == <<"research", "outline", "write", "edit">>

\* C1 (as claimed, read for requests whose optional fields are well typed):
\* once the body parses and holds blog_topic, no exception escapes the
\* handler, whatever the outcome of generation and persistence, and a
\* finished invocation has returned the success envelope.
C1_NoExceptionEscapes ==
    (BodyParsed /\ event.blog_topic # Absent /\ event.seo_keywords # "notlist") =>
        /\ response.kind # "raised"
        /\ pc = "done" => response = Envelope

\* C2 (as claimed): when the framework is available and a stage of the
\* staged run raises, Direct Generation is invoked for the same topic and
\* its result is the pipeline output.
C2_FallbackOnStagedFailure ==
    (Available /\ Len(started) > Cardinality(hasOut)) =>
        /\ directCalls = 1
        /\ directTopic = topic
        /\ raisedAt # "kickoff"

\* C3: a parsed body without blog_topic makes the handler fail before any
\* generation call, any inference call and any object-store write.
C3_MissingTopicFailsFirst ==
    (BodyParsed /\ event.blog_topic = Absent) =>
        /\ pc = "raised"
        /\ response.kind = "raised"
        /\ directCalls = 0
        /\ inferenceCalls = 0
        /\ started = <<>>
        /\ writes = <<>>

C3_Witness ==
    /\ BodyParsed
    /\ event.blog_topic = Absent
    /\ pc = "raised"

\* C4: with the framework unavailable no stage is ever built or run, and the
\* pipeline returns exactly what the direct call returned for the request's
\* topic.
C4_FallbackEquivalence ==
    ~Available =>
        /\ started = <<>>
        /\ hasOut = {}
        /\ stageIdx = 0
        /\ GenReturned =>
              /\ directCalls = 1
              /\ directTopic = topic
              /\ genResult = directResult

C4_Witness ==
    /\ ~Available
    /\ pc = "done"
    /\ event.seo_keywords = "notlist"
    /\ directOutcome = "ok"
    /\ NonBlank(genResult)
    /\ genResult[1] = " "

\* C5: the direct call never raises; it returns the empty text on every
\* failure and the generation field otherwise.
C5_DirectNeverRaises ==
    /\ raisedAt # "direct"
    /\ directOutcome # "none" =>
          directResult = IF directOutcome = "ok" THEN directGen ELSE <<>>
    /\ (directCalls = 1 /\ pc # "direct") => directOutcome # "none"

C5_Witness ==
    /\ directOutcome = "client_error"
    /\ directResult = <<>>
    /\ pc = "done"

C7_ResultExtraction ==
    (Available /\ GenReturned) =>
        /\ raisedAt # "extract"
        /\ IF editOut.kind = "str" /\ NonBlank(editOut.raw)
           THEN IsTrimOf(genResult, editOut.raw)
           ELSE IsTrimOf(genResult, aggText)

C7_Witness ==
    /\ Available
    /\ pc = "done"
    /\ editOut.kind = "str"
    /\ NonBlank(editOut.raw)
    /\ Len(genResult) < Len(editOut.raw)
    /\ aggText # genResult

\* C8: the stages start in the order Research, Outline, Write, Edit, each
\* one only when every earlier stage has its result, and each is given
\* exactly the earlier stages as context.
C8_StageOrderAndContext ==
    /\ Len(started) <= Len(StageOrder)
    /\ \A i \in 1..Len(started) :
        /\ started[i] = StageOrder[i]
        /\ \A k \in 1..(i - 1) : StageOrder[k] \in hasOut
        /\ ctxGiven[started[i]] = {StageOrder[k] : k \in 1..(i - 1)}

C8_Witness ==
    /\ Len(started) = 4
    /\ hasOut = Stages
    /\ pc = "done"

\* C9: at most one object-store write per invocation, only after the
\* pipeline returned a non-empty text, with that text as payload; an empty
\* result is never written.
C9_SingleVerbatimWrite ==
    /\ Len(writes) <= 1
    /\ writes # <<>> =>
          /\ GenReturned
          /\ genResult # <<>>
          /\ writes[1] = genResult
    /\ (GenReturned /\ genResult = <<>>) => (writes = <<>> /\ pc # "save")

C9_Witness ==
    /\ pc = "done"
    /\ Len(writes) = 1
    /\ writes[1] = genResult
    /\ ~NonBlank(genResult)

\* C10: with the framework available the direct call is never made; with
\* it unavailable the direct call is made exactly once and no stage runs.
C10_PathsExclusive ==
    /\ Available => (directCalls = 0 /\ directOutcome = "none")
    /\ (~Available /\ pc \notin {"start", "pipeline"} /\ raisedAt # "parse") =>
          (directCalls = 1 /\ started = <<>>)

C10_Witness ==
    /\ Available
    /\ raisedAt = "kickoff"
    /\ Len(started) = 2
    /\ directCalls = 0

====
